---- MODULE Spec2Model ----
(***************************************************************************)
(* A model of the mingus3 core: notes.py (pitch-class arithmetic),         *)
(* keys.py (key signatures and the memoised diatonic scales) and           *)
(* intervals.py (diatonic and absolute intervals, naming, shorthand,       *)
(* consonance), and of the Note object of containers/note.py (set_note,    *)
(* transpose, augment, diminish).                                          *)
(*                                                                         *)
(* Python strings are sequences of one-character strings, so that          *)
(* indexing, slicing and concatenation are what the code does:             *)
(* 'C#b' is <<"C", "#", "b">>.  The long interval names, which the code    *)
(* only joins and returns, are sequences of their words and the blank      *)
(* between them: 'major third' is <<"major", " ", "third">>.  A call       *)
(* either returns a value, returns Python's False, or raises; a Result     *)
(* record says which.                                                      *)
(***************************************************************************)
EXTENDS Integers, Sequences, FiniteSets, TLC

VARIABLES pc, op, args, ret, key_cache, requested, self, callers

vars == <<pc, op, args, ret, key_cache, requested, self, callers>>

(***************************************************************************)
(* Bounds of the model.                                                    *)
(***************************************************************************)
\* longest accidental string of a note given to a one-note function
MaxAcc == 7
\* longest accidental string of the notes given to two-note functions
MaxAccPair == 2
\* longest accidental string of an interval shorthand
MaxShAcc == 2
\* the degree numbers tried in a shorthand are 0..MaxDegree
MaxDegree == 16
\* the scale-degree offsets tried by interval() are 0..MaxOffset
MaxOffset == 7
\* the key cache is let grow to this many keys in the key session
MaxCached == 2
\* the octaves given to Note.set_note run from above the default one to MaxOctave
MaxOctave == 5
\* the half steps given to get_interval are -MaxHalfSteps..MaxHalfSteps
MaxHalfSteps == 12
\* the correction loop is followed for at most this many iterations
MaxLoopSteps == 12
\* a Note is augmented and diminished at most this many times in all
MaxChain == 8
\* the number of callers that run get_notes at the same time
NumCallers == 2

(***************************************************************************)
(* Results of a call.                                                      *)
(***************************************************************************)
None == <<>>

Return(v) == [exc |-> "none", false |-> FALSE, val |-> v]

ReturnFalse == [exc |-> "none", false |-> TRUE, val |-> None]

Raise(e) == [exc |-> e, false |-> FALSE, val |-> None]

Returned(r) == r.exc = "none" /\ ~r.false

\* a result together with the key cache the call leaves behind
WithCache(r, c) == [r |-> r, c |-> c]

(***************************************************************************)
(* Python sequence helpers.                                                *)
(***************************************************************************)
\* seq.index(x), 0-based; the callers below only use it on members
\* the element of a one-element set; The({F(x) : x \in {e}}) is F of the value of e
The(S) == CHOOSE x \in S : TRUE

Index(seq, x) == (CHOOSE i \in 1..Len(seq) : seq[i] = x /\ \A j \in 1..(i - 1) : seq[j] # x) - 1

Contains(seq, x) == \E i \in 1..Len(seq) : seq[i] = x

\* s[-1]
Last(s) == s[Len(s)]

\* s[:-1]
ButLast(s) == SubSeq(s, 1, Len(s) - 1)

RECURSIVE Count(_, _)
Count(s, ch) == IF s = <<>> THEN 0 ELSE (IF Head(s) = ch THEN 1 ELSE 0) + Count(Tail(s), ch)

\* n * ch
Repeat(ch, n) == [i \in 1..n |-> ch]

IsUpper(ch) == ch \in {"A", "B", "C", "D", "E", "F", "G", "H"}

Upper(ch) ==
    CASE ch = "a" -> "A" [] ch = "b" -> "B" [] ch = "c" -> "C" [] ch = "d" -> "D"
      [] ch = "e" -> "E" [] ch = "f" -> "F" [] ch = "g" -> "G" [] ch = "h" -> "H"
      [] OTHER -> ch

(***************************************************************************)
(* notes.py                                                                *)
(***************************************************************************)
Letters == {"C", "D", "E", "F", "G", "A", "B"}

note_dict == [l \in Letters |->
    CASE l = "C" -> 0 [] l = "D" -> 2 [] l = "E" -> 4 [] l = "F" -> 5
      [] l = "G" -> 7 [] l = "A" -> 9 [] l = "B" -> 11]

fifths == <<"F", "C", "G", "D", "A", "E", "B">>

is_valid_note(note) ==
    IF note = <<>> THEN Raise("IndexError")
    ELSE IF note[1] \notin DOMAIN note_dict THEN Return(FALSE)
    ELSE IF \E i \in 2..Len(note) : note[i] \notin {"b", "#"} THEN Return(FALSE)
    ELSE Return(TRUE)

assert_valid_note(note) ==
    LET v == is_valid_note(note) IN
    IF v.exc # "none" THEN v
    ELSE IF ~v.val THEN Raise("NoteFormatError")
    ELSE Return(None)

RECURSIVE Postfixes(_, _)
Postfixes(val, post) ==
    IF post = <<>> THEN val
    ELSE Postfixes(CASE Head(post) = "b" -> val - 1
                     [] Head(post) = "#" -> val + 1
                     [] OTHER -> val, Tail(post))

note_to_int(note) ==
    LET a == assert_valid_note(note) IN
    IF a.exc # "none" THEN a
    ELSE Return(Postfixes(note_dict[note[1]], Tail(note)) % 12)

\* a slip: the test of diminish copied into augment
augment_body_wrong_test(note) ==
    IF Last(note) # "#" THEN note \o <<"#">> ELSE ButLast(note)

augment_body(note) ==
    IF Last(note) # "b" THEN note \o <<"#">> ELSE ButLast(note)

augment(note) ==
    LET a == assert_valid_note(note) IN
    IF a.exc # "none" THEN a ELSE Return(augment_body(note))

\* a slip: a flat is appended even after a sharp
diminish_body_always_appends(note) == note \o <<"b">>

diminish_body(note) ==
    IF Last(note) # "#" THEN note \o <<"b">> ELSE ButLast(note)

diminish(note) ==
    LET a == assert_valid_note(note) IN
    IF a.exc # "none" THEN a ELSE Return(diminish_body(note))

(***************************************************************************)
(* keys.py                                                                 *)
(***************************************************************************)
keys == <<
    << <<"C", "b">>, <<"a", "b">> >>,
    << <<"G", "b">>, <<"e", "b">> >>,
    << <<"D", "b">>, <<"b", "b">> >>,
    << <<"A", "b">>, <<"f">> >>,
    << <<"E", "b">>, <<"c">> >>,
    << <<"B", "b">>, <<"g">> >>,
    << <<"F">>, <<"d">> >>,
    << <<"C">>, <<"a">> >>,
    << <<"G">>, <<"e">> >>,
    << <<"D">>, <<"b">> >>,
    << <<"A">>, <<"f", "#">> >>,
    << <<"E">>, <<"c", "#">> >>,
    << <<"B">>, <<"g", "#">> >>,
    << <<"F", "#">>, <<"d", "#">> >>,
    << <<"C", "#">>, <<"a", "#">> >> >>

major_keys == [i \in 1..Len(keys) |-> keys[i][1]]

minor_keys == [i \in 1..Len(keys) |-> keys[i][2]]

base_scale == <<"C", "D", "E", "F", "G", "A", "B">>

is_valid_key(key) == \E i \in 1..Len(keys) : Contains(keys[i], key)

assert_valid_key(key) ==
    IF ~is_valid_key(key) THEN Raise("NoteFormatError") ELSE Return(None)

get_key_signature(key) ==
    LET a == assert_valid_key(key) IN
    IF a.exc # "none" THEN a
    ELSE IF IsUpper(key[1]) THEN Return(Index(major_keys, key) - 7)
    ELSE Return(Index(minor_keys, key) - 7)

\* a slip: the flats are read from the front of fifths, like the sharps
get_key_signature_accidentals_flats_from_front(key) ==
    LET s == get_key_signature(key) IN
    IF s.exc # "none" THEN s
    ELSE LET accidentals == s.val IN
         IF accidentals < 0
         THEN Return([j \in 1..(-accidentals) |-> <<fifths[j]>> \o <<"b">>])
         ELSE IF accidentals > 0
         THEN Return([j \in 1..accidentals |-> <<fifths[j]>> \o <<"#">>])
         ELSE Return(<<>>)

get_key_signature_accidentals(key) ==
    LET s == get_key_signature(key) IN
    IF s.exc # "none" THEN s
    ELSE LET accidentals == s.val IN
         IF accidentals < 0
         THEN Return([j \in 1..(-accidentals) |-> <<fifths[Len(fifths) - (j - 1)]>> \o <<"b">>])
         ELSE IF accidentals > 0
         THEN Return([j \in 1..accidentals |-> <<fifths[j]>> \o <<"#">>])
         ELSE Return(<<>>)

\* a slip: the dict is keyed by the altered note itself, so no letter is ever found in it
AlteredNote_keyed_by_name(alts, letter) ==
    LET hits == {i \in 1..Len(alts) : alts[i] = <<letter>>} IN
    IF hits = {} THEN <<letter>>
    ELSE alts[CHOOSE i \in hits : \A j \in hits : j <= i]

\* altered_notes_dict: the last altered note with that letter, if any
AlteredNote(alts, letter) ==
    LET hits == {i \in 1..Len(alts) : alts[i][1] = letter} IN
    IF hits = {} THEN <<letter>>
    ELSE alts[CHOOSE i \in hits : \A j \in hits : j <= i]

\* a slip: the scale is sliced without cycle(), so it stops at B
base_scale_not_cycled(tonic_index) ==
    [i \in 1..(7 - tonic_index) |-> base_scale[tonic_index + i]]

\* islice(cycle(base_scale), tonic_index, tonic_index + 7)
base_scale_start_on_tonic(tonic_index) ==
    [i \in 1..7 |-> base_scale[((tonic_index + (i - 1)) % 7) + 1]]

\* a slip: the entry is filed under the upper-cased key, so 'c' lands on 'C'
cache_store_upper(cache, key, result) ==
    LET k0 == <<Upper(key[1])>> \o Tail(key) IN
    [k \in DOMAIN cache \cup {k0} |-> IF k = k0 THEN result ELSE cache[k]]

\* a slip: the write replaces the cache by the one new entry
cache_store_forgets_the_rest(cache, key, result) ==
    [k \in {key} |-> result]

\* _key_cache[key] = result
cache_store(cache, key, result) ==
    [k \in DOMAIN cache \cup {key} |-> IF k = key THEN result ELSE cache[k]]

\* the scale get_notes builds for a valid key, before it is cached
scale_of_key(key) ==
    LET tonic_index == Index(base_scale, Upper(key[1]))
        rotated == base_scale_start_on_tonic(tonic_index)
    IN The({[i \in 1..Len(rotated) |-> AlteredNote(alts, rotated[i])]
            : alts \in {get_key_signature_accidentals(key).val}})

get_notes(cache, key) ==
    IF key \in DOMAIN cache THEN WithCache(Return(cache[key]), cache)
    ELSE LET a == assert_valid_key(key) IN
         IF a.exc # "none" THEN WithCache(a, cache)
         ELSE The({WithCache(Return(result), cache_store(cache, key, result))
                   : result \in {scale_of_key(key)}})

(***************************************************************************)
(* intervals.py: diatonic intervals                                        *)
(***************************************************************************)
\* a slip: the start note is only checked to be a note, not to be in the key
assert_valid_start_note_any_spelling(cache, key, note) ==
    LET a == assert_valid_note(note) IN
    IF a.exc # "none" THEN WithCache(a, cache)
    ELSE The({IF g.r.exc # "none" THEN g ELSE WithCache(Return(None), g.c)
              : g \in {get_notes(cache, key)}})

assert_valid_start_note(cache, key, note) ==
    LET a == assert_valid_note(note) IN
    IF a.exc # "none" THEN WithCache(a, cache)
    ELSE The({IF g.r.exc # "none" THEN g
              ELSE IF ~Contains(g.r.val, note) THEN WithCache(Raise("KeyError"), g.c)
              ELSE WithCache(Return(None), g.c)
              : g \in {get_notes(cache, key)}})

interval(cache, key, start_note, scale_degree_interval) ==
    The({IF a.r.exc # "none" THEN a
         ELSE The({LET notes_in_key == g.r.val
                       hits == {i \in 1..Len(notes_in_key) : notes_in_key[i][1] = start_note[1]}
                   IN IF hits = {} THEN WithCache(Raise("UnboundLocalError"), g.c)
                      ELSE LET n == notes_in_key[CHOOSE i \in hits : \A j \in hits : j <= i]
                               index == Index(notes_in_key, n)
                           IN WithCache(Return(notes_in_key[((index + scale_degree_interval) % 7) + 1]), g.c)
                   : g \in {get_notes(a.c, key)}})
         : a \in {assert_valid_start_note(cache, key, start_note)}})

second(cache, note, key) == interval(cache, key, note, 1)

third(cache, note, key) == interval(cache, key, note, 2)

fourth(cache, note, key) == interval(cache, key, note, 3)

fifth(cache, note, key) == interval(cache, key, note, 4)

sixth(cache, note, key) == interval(cache, key, note, 5)

seventh(cache, note, key) == interval(cache, key, note, 6)

(***************************************************************************)
(* intervals.py: measure and the correction routine                        *)
(***************************************************************************)
measure(note1, note2) ==
    LET n2 == note_to_int(note2)
        n1 == note_to_int(note1)
    IN IF n2.exc # "none" THEN n2
       ELSE IF n1.exc # "none" THEN n1
       ELSE Return((n2.val - n1.val) % 12)

\* a slip: the two branches of the loop body are swapped
loop_body_wrong_way(note2, cur, half_step_interval) ==
    IF cur > half_step_interval THEN augment(note2) ELSE diminish(note2)

\* the body of the while loop: the next note2
loop_body(note2, cur, half_step_interval) ==
    IF cur > half_step_interval THEN diminish(note2) ELSE augment(note2)

\* the while loop: the note2 it ends with
RECURSIVE CorrectionLoop(_, _, _)
CorrectionLoop(note1, note2, half_step_interval) ==
    The({IF cur.exc # "none" THEN cur
         ELSE IF cur.val = half_step_interval THEN Return(note2)
         ELSE The({CorrectionLoop(note1, next, half_step_interval)
                   : next \in {loop_body(note2, cur.val, half_step_interval).val}})
         : cur \in {measure(note1, note2)}})

\* a slip: the flipped spelling keeps the symbol it had
FlipAccidentals_same_symbol(note2) ==
    LET accidentals == Tail(note2)
        sharp_count == Count(accidentals, "#")
        flat_count == Count(accidentals, "b")
    IN IF sharp_count > 6 THEN <<note2[1]>> \o Repeat("#", 12 - sharp_count)
       ELSE IF flat_count > 6 THEN <<note2[1]>> \o Repeat("b", 12 - flat_count)
       ELSE note2

\* the pass after the loop: more than 6 accidentals are flipped
FlipAccidentals(note2) ==
    LET accidentals == Tail(note2)
        sharp_count == Count(accidentals, "#")
        flat_count == Count(accidentals, "b")
    IN IF sharp_count > 6 THEN <<note2[1]>> \o Repeat("b", 12 - sharp_count)
       ELSE IF flat_count > 6 THEN <<note2[1]>> \o Repeat("#", 12 - flat_count)
       ELSE note2

augment_or_diminish_until_the_interval_is_right(note1, note2, half_step_interval) ==
    The({IF l.exc # "none" THEN l ELSE Return(FlipAccidentals(l.val))
         : l \in {CorrectionLoop(note1, note2, half_step_interval)}})

(***************************************************************************)
(* intervals.py: absolute intervals                                        *)
(***************************************************************************)
\* note[0], as a one-letter string
FirstLetter(note) == <<note[1]>>

\* the diatonic guess, corrected to the given number of half steps
Corrected(guess, note, half_steps) ==
    The({IF g.r.exc # "none" THEN g
         ELSE WithCache(augment_or_diminish_until_the_interval_is_right(note, g.r.val, half_steps),
                        g.c)
         : g \in {guess}})

\* notes.diminish / notes.augment of the result of an inner call
Diminished(inner) ==
    The({IF i.r.exc # "none" THEN i ELSE WithCache(diminish(i.r.val), i.c) : i \in {inner}})

Augmented(inner) ==
    The({IF i.r.exc # "none" THEN i ELSE WithCache(augment(i.r.val), i.c) : i \in {inner}})

perfect_unison(cache, note) == WithCache(Return(note), cache)

major_unison(cache, note) == perfect_unison(cache, note)

diminished_unison(cache, note) == WithCache(diminish(note), cache)

minor_unison(cache, note) == diminished_unison(cache, note)

augmented_unison(cache, note) == WithCache(augment(note), cache)

major_second(cache, note) ==
    IF note = <<>> THEN WithCache(Raise("IndexError"), cache)
    ELSE Corrected(second(cache, FirstLetter(note), <<"C">>), note, 2)

minor_second(cache, note) == Diminished(major_second(cache, note))

major_third(cache, note) ==
    IF note = <<>> THEN WithCache(Raise("IndexError"), cache)
    ELSE Corrected(third(cache, FirstLetter(note), <<"C">>), note, 4)

minor_third(cache, note) == Diminished(major_third(cache, note))

perfect_fourth(cache, note) ==
    IF note = <<>> THEN WithCache(Raise("IndexError"), cache)
    ELSE Corrected(fourth(cache, FirstLetter(note), <<"C">>), note, 5)

major_fourth(cache, note) == perfect_fourth(cache, note)

diminished_fourth(cache, note) == Diminished(perfect_fourth(cache, note))

minor_fourth(cache, note) == diminished_fourth(cache, note)

augmented_fourth(cache, note) == Augmented(perfect_fourth(cache, note))

perfect_fifth(cache, note) ==
    IF note = <<>> THEN WithCache(Raise("IndexError"), cache)
    ELSE Corrected(fifth(cache, FirstLetter(note), <<"C">>), note, 7)

major_fifth(cache, note) == perfect_fifth(cache, note)

diminished_fifth(cache, note) == Diminished(perfect_fifth(cache, note))

minor_fifth(cache, note) == diminished_fifth(cache, note)

major_sixth(cache, note) ==
    IF note = <<>> THEN WithCache(Raise("IndexError"), cache)
    ELSE Corrected(sixth(cache, FirstLetter(note), <<"C">>), note, 9)

minor_sixth(cache, note) == Diminished(major_sixth(cache, note))

major_seventh(cache, note) ==
    IF note = <<>> THEN WithCache(Raise("IndexError"), cache)
    ELSE Corrected(seventh(cache, FirstLetter(note), <<"C">>), note, 11)

minor_seventh(cache, note) == Diminished(major_seventh(cache, note))

diminished_seventh(cache, note) == Diminished(minor_seventh(cache, note))

(***************************************************************************)
(* intervals.py: get_interval                                              *)
(***************************************************************************)
\* diatonic_note_lookup[t]: the last scale note whose note_to_int is t
diatonic_note_lookup(diatonic_notes, t) ==
    LET hits == {i \in 1..Len(diatonic_notes) : note_to_int(diatonic_notes[i]).val = t} IN
    IF hits = {} THEN Raise("KeyError")
    ELSE Return(diatonic_notes[CHOOSE i \in hits : \A j \in hits : j <= i])

\* a slip: the chromatic target is reached from the scale note below, augmented
ChromaticTarget_from_below(diatonic_notes, target_note_int) ==
    The({IF d.exc # "none" THEN d ELSE augment(d.val)
         : d \in {diatonic_note_lookup(diatonic_notes, (target_note_int - 1) % 12)}})

\* the except branch: the scale note a half step above, diminished
ChromaticTarget(diatonic_notes, target_note_int) ==
    The({IF d.exc # "none" THEN d ELSE diminish(d.val)
         : d \in {diatonic_note_lookup(diatonic_notes, (target_note_int + 1) % 12)}})

get_interval(cache, note, half_steps, key, up) ==
    LET a == assert_valid_note(note) IN
    IF a.exc # "none" THEN WithCache(a, cache)
    ELSE The({IF g.r.exc # "none" THEN g
              ELSE LET steps == IF up THEN half_steps ELSE half_steps * (-1)
                       starting_note_int == note_to_int(note).val
                       target_note_int == (starting_note_int + steps) % 12
                   IN The({IF res.exc = "none" THEN WithCache(res, g.c)
                           ELSE WithCache(ChromaticTarget(g.r.val, target_note_int), g.c)
                           : res \in {diatonic_note_lookup(g.r.val, target_note_int)}})
              : g \in {get_notes(cache, key)}})

(***************************************************************************)
(* intervals.py: consonance                                                *)
(***************************************************************************)
is_perfect_consonant(note1, note2, include_fourths) ==
    LET dhalf == measure(note1, note2) IN
    IF dhalf.exc # "none" THEN dhalf
    ELSE Return(dhalf.val \in {0, 7} \/ (include_fourths /\ dhalf.val = 5))

is_imperfect_consonant(note1, note2) ==
    LET m == measure(note1, note2) IN
    IF m.exc # "none" THEN m ELSE Return(m.val \in {3, 4, 8, 9})

\* is_perfect_consonant(...) or is_imperfect_consonant(...)
is_consonant(note1, note2, include_fourths) ==
    LET p == is_perfect_consonant(note1, note2, include_fourths) IN
    IF p.exc # "none" THEN p
    ELSE IF p.val THEN p
    ELSE is_imperfect_consonant(note1, note2)

\* a slip: the flag is handed on as it is
is_dissonant_flag_not_inverted(note1, note2, include_fourths) ==
    LET c == is_consonant(note1, note2, include_fourths) IN
    IF c.exc # "none" THEN c ELSE Return(~c.val)

\* not is_consonant(note1, note2, not include_fourths)
is_dissonant(note1, note2, include_fourths) ==
    LET c == is_consonant(note1, note2, ~include_fourths) IN
    IF c.exc # "none" THEN c ELSE Return(~c.val)

\* the defaults of include_fourths: True in the consonance tests, False in is_dissonant
include_fourths_default(function) == function # "is_dissonant"

\* the value a call binds include_fourths to: the one given, or the default
include_fourths_of(function, given) ==
    IF given = "default" THEN include_fourths_default(function) ELSE given = "True"

(***************************************************************************)
(* intervals.py: naming an interval                                        *)
(***************************************************************************)
DigitChars == <<"0", "1", "2", "3", "4", "5", "6", "7", "8", "9">>

\* str(n) of a natural number
RECURSIVE Str(_)
Str(n) == IF n < 10 THEN <<DigitChars[n + 1]>>
          ELSE Str(n \div 10) \o <<DigitChars[(n % 10) + 1]>>

\* int(s) of a string of decimal digits
RECURSIVE Int_(_)
Int_(s) == IF s = <<>> THEN 0 ELSE 10 * Int_(ButLast(s)) + Index(DigitChars, Last(s))

\* [interval_type, harmony_quality, half_steps]
pre_alt_int_lookup == [d \in 1..7 |->
    CASE d = 1 -> <<"unison", "perfect", 0>>
      [] d = 2 -> <<"second", "imperfect", 2>>
      [] d = 3 -> <<"third", "imperfect", 4>>
      [] d = 4 -> <<"fourth", "perfect", 5>>
      [] d = 5 -> <<"fifth", "imperfect", 7>>
      [] d = 6 -> <<"sixth", "imperfect", 9>>
      [] d = 7 -> <<"seventh", "imperfect", 11>>]

perfect_int_modifier == [m \in -2..2 |->
    CASE m = -2 -> <<"doubly diminished", <<"b", "b">> >>
      [] m = -1 -> <<"diminished", <<"b">> >>
      [] m = 0 -> <<"perfect", <<>> >>
      [] m = 1 -> <<"augmented", <<"#">> >>
      [] m = 2 -> <<"doubly augmented", <<"#", "#">> >>]

imperfect_int_modifier == [m \in -2..1 |->
    CASE m = -2 -> <<"diminished", <<"b", "b">> >>
      [] m = -1 -> <<"minor", <<"b">> >>
      [] m = 0 -> <<"major", <<>> >>
      [] m = 1 -> <<"augmented", <<"#">> >>]

\* the diatonic size of the interval, 1..7 (distance_pre_alt)
DistancePreAlt(note1, note2, up) ==
    LET n1_int_pre_alt == Index(base_scale, note1[1])
        n2_int_pre_alt == Index(base_scale, note2[1])
    IN IF up THEN ((n2_int_pre_alt - n1_int_pre_alt) % 7) + 1
       ELSE ((n1_int_pre_alt - n2_int_pre_alt) % 7) + 1

\* a slip: the difference is not brought into -6..6
HalfStepDiff_not_wrapped(note1, note2, up) ==
    LET half_steps_pre_alt == pre_alt_int_lookup[DistancePreAlt(note1, note2, up)][3]
        n1_int == note_to_int(note1).val
        n2_int == note_to_int(note2).val
        half_steps == IF up THEN (n2_int - n1_int) % 12 ELSE (n1_int - n2_int) % 12
    IN half_steps - half_steps_pre_alt

\* the chromatic difference from the size's baseline, brought into -6..6
HalfStepDiff(note1, note2, up) ==
    LET half_steps_pre_alt == pre_alt_int_lookup[DistancePreAlt(note1, note2, up)][3]
        n1_int == note_to_int(note1).val
        n2_int == note_to_int(note2).val
        half_steps == IF up THEN (n2_int - n1_int) % 12 ELSE (n1_int - n2_int) % 12
        half_step_diff == half_steps - half_steps_pre_alt
    IN IF half_step_diff < -6 THEN half_step_diff + 12
       ELSE IF half_step_diff > 6 THEN half_step_diff - 12
       ELSE half_step_diff

determine(note1, note2, shorthand, up) ==
    LET a1 == assert_valid_note(note1)
        a2 == assert_valid_note(note2)
    IN IF a1.exc # "none" THEN a1
       ELSE IF a2.exc # "none" THEN a2
       ELSE LET distance_pre_alt == DistancePreAlt(note1, note2, up)
                int_type_name == pre_alt_int_lookup[distance_pre_alt][1]
                hmy_qual == pre_alt_int_lookup[distance_pre_alt][2]
                half_step_diff == HalfStepDiff(note1, note2, up)
                table == IF hmy_qual = "perfect" THEN perfect_int_modifier
                         ELSE imperfect_int_modifier
            IN IF half_step_diff \notin DOMAIN table THEN Raise("KeyError")
               ELSE LET mod == table[half_step_diff] IN
                    IF shorthand THEN Return(mod[2] \o Str(distance_pre_alt))
                    ELSE Return(<<mod[1], " ", int_type_name>>)

(***************************************************************************)
(* intervals.py: interval shorthand                                        *)
(***************************************************************************)
\* the longest prefix of s made of 'b' and '#': the group ([b#]*)
RECURSIVE AccidentalPrefix(_)
AccidentalPrefix(s) ==
    IF s # <<>> /\ Head(s) \in {"b", "#"} THEN <<Head(s)>> \o AccidentalPrefix(Tail(s))
    ELSE <<>>

\* a slip: the second alternative is 1[0-9], so 16..19 pass as degrees
DegreeDigits_up_to_19(rest) ==
    LET body == IF rest # <<>> /\ Last(rest) = "\n" THEN ButLast(rest) ELSE rest IN
    IF Len(body) = 1 /\ body[1] \in {"1", "2", "3", "4", "5", "6", "7", "8", "9"} THEN body
    ELSE IF Len(body) = 2 /\ body[1] = "1" /\ Contains(DigitChars, body[2]) THEN body
    ELSE <<>>

\* what ([1-9]|1[0-5])$ matches: the degree digits, or <<>> when it does not;
\* $ also matches just before a newline that ends the string
DegreeDigits(rest) ==
    LET body == IF rest # <<>> /\ Last(rest) = "\n" THEN ButLast(rest) ELSE rest IN
    IF Len(body) = 1 /\ body[1] \in {"1", "2", "3", "4", "5", "6", "7", "8", "9"} THEN body
    ELSE IF Len(body) = 2 /\ body[1] = "1" /\ body[2] \in {"0", "1", "2", "3", "4", "5"} THEN body
    ELSE <<>>

parse_shorthand(shorthand) ==
    LET accidentals == AccidentalPrefix(shorthand)
        degree_ == DegreeDigits(SubSeq(shorthand, Len(accidentals) + 1, Len(shorthand)))
    IN IF degree_ = <<>> THEN Raise("ValueError")
       ELSE LET degree == ((Int_(degree_) - 1) % 7) + 1
                octave == (Int_(degree_) - 1) \div 7
            IN Return(<<accidentals, degree, octave>>)

\* a slip: the column for up=False repeats the column for up=True
ShorthandLookup_one_column(cache, degree, up, note) ==
    CASE degree = 1 -> major_unison(cache, note)
      [] degree = 2 -> major_second(cache, note)
      [] degree = 3 -> major_third(cache, note)
      [] degree = 4 -> major_fourth(cache, note)
      [] degree = 5 -> major_fifth(cache, note)
      [] degree = 6 -> major_sixth(cache, note)
      [] degree = 7 -> major_seventh(cache, note)

\* shorthand_lookup[degree][up], called on the note
ShorthandLookup(cache, degree, up, note) ==
    CASE degree = 1 -> major_unison(cache, note)
      [] degree = 2 -> IF up THEN major_second(cache, note) ELSE minor_seventh(cache, note)
      [] degree = 3 -> IF up THEN major_third(cache, note) ELSE minor_sixth(cache, note)
      [] degree = 4 -> IF up THEN major_fourth(cache, note) ELSE major_fifth(cache, note)
      [] degree = 5 -> IF up THEN major_fifth(cache, note) ELSE major_fourth(cache, note)
      [] degree = 6 -> IF up THEN major_sixth(cache, note) ELSE minor_third(cache, note)
      [] degree = 7 -> IF up THEN major_seventh(cache, note) ELSE minor_second(cache, note)

\* a slip: the accidentals are applied as if the interval always went up
RECURSIVE AdjustForAccidentals_always_up(_, _, _)
AdjustForAccidentals_always_up(res, accidentals, up) ==
    IF accidentals = <<>> THEN Return(res)
    ELSE LET x == Head(accidentals)
             step == IF x = "#" THEN augment(res)
                     ELSE IF x = "b" THEN diminish(res)
                     ELSE Return(res)
         IN IF step.exc # "none" THEN step
            ELSE AdjustForAccidentals_always_up(step.val, Tail(accidentals), up)

\* the loop "for x in accidentals"
RECURSIVE AdjustForAccidentals(_, _, _)
AdjustForAccidentals(res, accidentals, up) ==
    IF accidentals = <<>> THEN Return(res)
    ELSE LET x == Head(accidentals)
             step == IF (x = "#" /\ up) \/ (x = "b" /\ ~up) THEN augment(res)
                     ELSE IF (x = "b" /\ up) \/ (x = "#" /\ ~up) THEN diminish(res)
                     ELSE Return(res)
         IN The({IF s.exc # "none" THEN s
                 ELSE AdjustForAccidentals(s.val, Tail(accidentals), up)
                 : s \in {step}})

from_shorthand(cache, note, interval_, up) ==
    LET v == is_valid_note(note) IN
    IF v.exc # "none" THEN WithCache(v, cache)
    ELSE IF ~v.val THEN WithCache(ReturnFalse, cache)
    ELSE LET p == parse_shorthand(interval_) IN
         IF p.exc # "none" THEN WithCache(p, cache)
         ELSE LET accidentals == p.val[1]
                  degree == p.val[2]
              IN IF degree \notin 1..7 THEN WithCache(ReturnFalse, cache)
                 ELSE The({IF res.r.exc # "none" THEN res
                           ELSE WithCache(AdjustForAccidentals(res.r.val, accidentals, up), res.c)
                           : res \in {ShorthandLookup(cache, degree, up, note)}})

(***************************************************************************)
(* containers/note.py: the Note object                                     *)
(***************************************************************************)
\* the class attributes: name = 'C', octave = 4, dynamics = {}
Note_defaults == [name |-> <<"C">>, octave |-> 4, dynamics |-> {}]

\* the name a Note is left with when from_shorthand handed back False
FalseName == <<"False">>

\* a result together with the Note and the key cache the method leaves behind
WithSelf(r, obj, c) == [r |-> r, self |-> obj, c |-> c]

\* name.split('-')
RECURSIVE split(_)
split(s) ==
    IF ~Contains(s, "-") THEN <<s>>
    ELSE LET i == Index(s, "-") + 1
         IN <<SubSeq(s, 1, i - 1)>> \o split(SubSeq(s, i + 1, Len(s)))

\* s.strip() for blanks
RECURSIVE strip(_)
strip(s) ==
    IF s # <<>> /\ Head(s) = " " THEN strip(Tail(s))
    ELSE IF s # <<>> /\ Last(s) = " " THEN strip(ButLast(s))
    ELSE s

\* int(s) of a string: blanks around, an optional '+', then decimal digits
int(s) ==
    LET t == strip(s)
        digits == IF t # <<>> /\ Head(t) = "+" THEN Tail(t) ELSE t
    IN IF digits # <<>> /\ \A i \in 1..Len(digits) : Contains(DigitChars, digits[i])
       THEN Return(Int_(digits))
       ELSE Raise("ValueError")

set_note(obj, name, octave, dynamics) ==
    LET dash_index == split(name) IN
    IF Len(dash_index) = 1
    THEN LET v == is_valid_note(name) IN
         IF v.exc # "none" THEN WithSelf(v, obj, None)
         ELSE IF v.val
              THEN LET new == [name |-> name, octave |-> octave, dynamics |-> dynamics]
                   IN WithSelf(Return(new), new, None)
              ELSE WithSelf(Raise("NoteFormatError"), obj, None)
    ELSE IF Len(dash_index) = 2
    THEN LET v == is_valid_note(dash_index[1]) IN
         IF v.exc # "none" THEN WithSelf(v, obj, None)
         ELSE IF v.val
              THEN LET o == int(dash_index[2]) IN
                   IF o.exc # "none" THEN WithSelf(o, [obj EXCEPT !.name = dash_index[1]], None)
                   ELSE LET new == [name |-> dash_index[1], octave |-> o.val, dynamics |-> dynamics]
                        IN WithSelf(Return(new), new, None)
              ELSE WithSelf(Raise("NoteFormatError"), obj, None)
    ELSE WithSelf(ReturnFalse, obj, None)

\* Note.__int__
Note_int(obj) ==
    IF obj.name = <<>> THEN Raise("IndexError")
    ELSE LET base == note_to_int(<<obj.name[1]>>)
             rest == Tail(obj.name)
         IN IF base.exc # "none" THEN base
            ELSE Return(obj.octave * 12 + base.val + Count(rest, "#") - Count(rest, "b"))

\* Note(letter), the comparison operand built inside transpose
Note_of(letter) == [name |-> <<letter>>, octave |-> 4, dynamics |-> {}]

\* Note.__lt__
Note_lt(a, b) == Note_int(a).val < Note_int(b).val

\* Note.__gt__: not (self < other or self == other)
Note_gt(a, b) == ~(Note_lt(a, b) \/ Note_int(a).val = Note_int(b).val)

\* a slip: the octaves of a compound interval are forgotten
transpose_without_compound_octaves(cache, obj, interval_, up) ==
    The({IF f.r.exc # "none" THEN WithSelf(f.r, obj, f.c)
         ELSE IF f.r.false
              THEN WithSelf(Raise("TypeError"), [obj EXCEPT !.name = FalseName], f.c)
         ELSE LET old_name == obj.name
                  name == f.r.val
                  octave == IF up
                            THEN IF Note_lt(Note_of(name[1]), Note_of(old_name[1]))
                                 THEN obj.octave + 1 ELSE obj.octave
                            ELSE IF Note_gt(Note_of(name[1]), Note_of(old_name[1]))
                                 THEN obj.octave - 1 ELSE obj.octave
              IN WithSelf(Return(None), [obj EXCEPT !.name = name, !.octave = octave], f.c)
         : f \in {from_shorthand(cache, obj.name, interval_, up)}})

\* Note.transpose
transpose(cache, obj, interval_, up) ==
    The({IF f.r.exc # "none" THEN WithSelf(f.r, obj, f.c)
         ELSE IF f.r.false
              THEN WithSelf(Raise("TypeError"), [obj EXCEPT !.name = FalseName], f.c)
         ELSE LET old_name == obj.name
                  name == f.r.val
                  octave == IF up
                            THEN IF Note_lt(Note_of(name[1]), Note_of(old_name[1]))
                                 THEN obj.octave + 1 ELSE obj.octave
                            ELSE IF Note_gt(Note_of(name[1]), Note_of(old_name[1]))
                                 THEN obj.octave - 1 ELSE obj.octave
                  p == parse_shorthand(interval_)
              IN IF p.exc # "none"
                 THEN WithSelf(p, [obj EXCEPT !.name = name, !.octave = octave], f.c)
                 ELSE WithSelf(Return(None),
                               [obj EXCEPT !.name = name, !.octave = octave + p.val[3]],
                               f.c)
         : f \in {from_shorthand(cache, obj.name, interval_, up)}})

\* Note.augment and Note.diminish: self.name = notes.augment(self.name)
Note_augment(obj) ==
    LET r == augment(obj.name) IN
    IF r.exc # "none" THEN WithSelf(r, obj, None)
    ELSE WithSelf(Return(None), [obj EXCEPT !.name = r.val], None)

Note_diminish(obj) ==
    LET r == diminish(obj.name) IN
    IF r.exc # "none" THEN WithSelf(r, obj, None)
    ELSE WithSelf(Return(None), [obj EXCEPT !.name = r.val], None)

(***************************************************************************)
(* The callers: the arguments they try.                                    *)
(***************************************************************************)
AccStrings(n) == UNION {[1..k -> {"#", "b"}] : k \in 0..n}

NoteNames(n) == {<<l>> \o a : l \in Letters, a \in AccStrings(n)}

InvalidNotes == {<<>>, <<"H">>, <<"c">>, <<"C", "x">>, <<"b">>}

NoteInputs == NoteNames(MaxAcc) \cup InvalidNotes

PairInputs == NoteNames(MaxAccPair) \cup InvalidNotes

\* the notes the correction loop measures from: every pitch class, and the invalid ones
BaseNoteInputs == NoteNames(1) \cup InvalidNotes

ValidKeys == {keys[i][j] : i \in 1..Len(keys), j \in 1..2}

InvalidKeys == {<<>>, <<"H">>, <<"A", "#">>, <<"c", "b">>, <<"C", "b", "b">>}

KeyInputs == ValidKeys \cup InvalidKeys

DegreeInputs == {Str(d) : d \in 0..MaxDegree}

ShorthandInputs ==
    {a \o d : a \in AccStrings(MaxShAcc), d \in DegreeInputs} \cup {<<>>, <<"b">>, <<"3", "b">>}

\* the strings given to Note.set_note: plain names, 'NAME-OCTAVE' forms, malformed ones
NameInputs ==
    NoteNames(MaxAccPair) \cup
    { <<>>, <<"H">>, <<"C", " ", "2", "3">>, <<"C", "-", "5">>, <<"C", "#", "-", "1", "2">>,
      <<"C", "-", "-", "4">>, <<"-", "4">>, <<"D", "-", "x">>, <<"H", "-", "4">>,
      <<"C", "-", "4", "-", "5">>, <<"E", "-", " ", "3">>, <<"E", "b", "-", "+", "5">>,
      <<"G", "-">> }

OctaveInputs == (Note_defaults.octave + 1)..MaxOctave

DynamicsInputs == {{"volume"}}

\* the threads that call get_notes
Procs == 1..NumCallers

CallerIdle == [pc |-> "idle", key |-> <<>>, result |-> <<>>, ret |-> Return(None)]

\* the strings given to parse_shorthand: the shorthands, some with a line end, some malformed
ParseInputs ==
    ShorthandInputs \cup
    {s \o <<"\n">> : s \in {<<"3">>, <<"b", "3">>, <<"1", "5">>, <<"1", "6">>, <<"#">>, <<>>}} \cup
    { <<"3", "\n", "\n">>, <<"\n", "3">>, <<"0", "3">>, <<" ", "3">>, <<"3", "x">>, <<"3", "#">>,
      <<"1", "2", "3">> }

\* the keys the concurrent callers ask for
CallerKeys == {<<"C">>, <<"c">>, <<"E", "b">>, <<"H">>}

\* include_fourths as a caller writes it: left out, True or False
FlagInputs == {"default", "True", "False"}

CacheHasRoom(key) ==
    key \in DOMAIN key_cache \/ key \notin ValidKeys \/ Cardinality(DOMAIN key_cache) < MaxCached

(***************************************************************************)
(* The state after import: nothing cached, no call made.                   *)
(***************************************************************************)
Init ==
    /\ pc = "idle"
    /\ op = "none"
    /\ args = <<>>
    /\ ret = Return(None)
    /\ key_cache = <<>>
    /\ requested = {}
    /\ self = Note_defaults
    /\ callers = [p \in Procs |-> CallerIdle]

\* a call of a function that leaves the cache alone
PureCall(name, a, r) ==
    /\ pc' = "done"
    /\ op' = name
    /\ args' = a
    /\ ret' = r
    /\ UNCHANGED <<key_cache, requested, self, callers>>

\* a call of a function that reads and fills the cache on its way
CacheCall(name, a, s) ==
    /\ pc' = "done"
    /\ op' = name
    /\ args' = a
    /\ \E v \in {s} : ret' = v.r /\ key_cache' = v.c
    /\ UNCHANGED <<requested, self, callers>>

\* the caller has taken the result and is ready for its next call
finish ==
    /\ pc = "done"
    /\ pc' = "idle"
    /\ op' = "none"
    /\ args' = <<>>
    /\ ret' = Return(None)
    /\ UNCHANGED <<key_cache, requested, self, callers>>

(***************************************************************************)
(* Calls into notes.py                                                     *)
(***************************************************************************)
is_valid_note_call ==
    /\ pc = "idle"
    /\ \E note \in NoteInputs : PureCall("is_valid_note", [note |-> note], is_valid_note(note))

note_to_int_call ==
    /\ pc = "idle"
    /\ \E note \in NoteInputs : PureCall("note_to_int", [note |-> note], note_to_int(note))

augment_call ==
    /\ pc = "idle"
    /\ \E note \in NoteInputs : PureCall("augment", [note |-> note], augment(note))

diminish_call ==
    /\ pc = "idle"
    /\ \E note \in NoteInputs : PureCall("diminish", [note |-> note], diminish(note))

NextNotes ==
    is_valid_note_call \/ note_to_int_call \/ augment_call \/ diminish_call \/ finish

SpecNotes == Init /\ [][NextNotes]_vars

(***************************************************************************)
(* Calls into keys.py: a session of calls sharing the cache                *)
(***************************************************************************)
get_key_signature_call ==
    /\ pc = "idle"
    /\ \E key \in KeyInputs : PureCall("get_key_signature", [key |-> key], get_key_signature(key))

get_key_signature_accidentals_call ==
    /\ pc = "idle"
    /\ \E key \in KeyInputs :
           PureCall("get_key_signature_accidentals", [key |-> key], get_key_signature_accidentals(key))

get_notes_call ==
    /\ pc = "idle"
    /\ \E key \in KeyInputs :
           /\ CacheHasRoom(key)
           /\ LET s == get_notes(key_cache, key) IN
               /\ pc' = "done"
               /\ op' = "get_notes"
               /\ args' = [key |-> key]
               /\ ret' = s.r
               /\ key_cache' = s.c
               /\ requested' = requested \cup ({key} \cap ValidKeys)
               /\ UNCHANGED <<self, callers>>

NextKeys ==
    get_key_signature_call \/ get_key_signature_accidentals_call \/ get_notes_call \/ finish

SpecKeys == Init /\ [][NextKeys]_vars

(***************************************************************************)
(* Calls of interval(): one call from the state after import (any key may  *)
(* be asked for, so the cache is not carried from call to call here)       *)
(***************************************************************************)
interval_call ==
    /\ pc = "idle"
    /\ \E key \in KeyInputs, start_note \in PairInputs, offset \in 0..MaxOffset :
           CacheCall("interval", [key |-> key, start_note |-> start_note, offset |-> offset],
                     interval(key_cache, key, start_note, offset))

second_call ==
    /\ pc = "idle"
    /\ \E key \in KeyInputs, note \in PairInputs :
           CacheCall("second", [key |-> key, note |-> note], second(key_cache, note, key))

NextDiatonic == interval_call \/ second_call

SpecDiatonic == Init /\ [][NextDiatonic]_vars

(***************************************************************************)
(* Calls of the absolute intervals, determine and from_shorthand           *)
(***************************************************************************)
major_second_call ==
    /\ pc = "idle"
    /\ \E note \in NoteInputs :
           CacheCall("major_second", [note |-> note], major_second(key_cache, note))

major_third_call ==
    /\ pc = "idle"
    /\ \E note \in NoteInputs :
           CacheCall("major_third", [note |-> note], major_third(key_cache, note))

perfect_fourth_call ==
    /\ pc = "idle"
    /\ \E note \in NoteInputs :
           CacheCall("perfect_fourth", [note |-> note], perfect_fourth(key_cache, note))

perfect_fifth_call ==
    /\ pc = "idle"
    /\ \E note \in NoteInputs :
           CacheCall("perfect_fifth", [note |-> note], perfect_fifth(key_cache, note))

major_sixth_call ==
    /\ pc = "idle"
    /\ \E note \in NoteInputs :
           CacheCall("major_sixth", [note |-> note], major_sixth(key_cache, note))

major_seventh_call ==
    /\ pc = "idle"
    /\ \E note \in NoteInputs :
           CacheCall("major_seventh", [note |-> note], major_seventh(key_cache, note))

minor_second_call ==
    /\ pc = "idle"
    /\ \E note \in NoteInputs :
           CacheCall("minor_second", [note |-> note], minor_second(key_cache, note))

minor_third_call ==
    /\ pc = "idle"
    /\ \E note \in NoteInputs :
           CacheCall("minor_third", [note |-> note], minor_third(key_cache, note))

minor_sixth_call ==
    /\ pc = "idle"
    /\ \E note \in NoteInputs :
           CacheCall("minor_sixth", [note |-> note], minor_sixth(key_cache, note))

minor_seventh_call ==
    /\ pc = "idle"
    /\ \E note \in NoteInputs :
           CacheCall("minor_seventh", [note |-> note], minor_seventh(key_cache, note))

diminished_fourth_call ==
    /\ pc = "idle"
    /\ \E note \in NoteInputs :
           CacheCall("diminished_fourth", [note |-> note], diminished_fourth(key_cache, note))

augmented_fourth_call ==
    /\ pc = "idle"
    /\ \E note \in NoteInputs :
           CacheCall("augmented_fourth", [note |-> note], augmented_fourth(key_cache, note))

diminished_fifth_call ==
    /\ pc = "idle"
    /\ \E note \in NoteInputs :
           CacheCall("diminished_fifth", [note |-> note], diminished_fifth(key_cache, note))

diminished_seventh_call ==
    /\ pc = "idle"
    /\ \E note \in NoteInputs :
           CacheCall("diminished_seventh", [note |-> note], diminished_seventh(key_cache, note))

NextAbsolute ==
    \/ major_second_call \/ major_third_call \/ perfect_fourth_call \/ perfect_fifth_call
    \/ major_sixth_call \/ major_seventh_call
    \/ minor_second_call \/ minor_third_call \/ minor_sixth_call \/ minor_seventh_call
    \/ diminished_fourth_call \/ augmented_fourth_call \/ diminished_fifth_call
    \/ diminished_seventh_call \/ finish

SpecAbsolute == Init /\ [][NextAbsolute]_vars

determine_call ==
    /\ pc = "idle"
    /\ \E note1 \in PairInputs, note2 \in PairInputs, shorthand \in BOOLEAN, up \in BOOLEAN :
           PureCall("determine",
                    [note1 |-> note1, note2 |-> note2, shorthand |-> shorthand, up |-> up],
                    determine(note1, note2, shorthand, up))

NextDetermine == determine_call \/ finish

SpecDetermine == Init /\ [][NextDetermine]_vars

parse_shorthand_call ==
    /\ pc = "idle"
    /\ \E shorthand \in ParseInputs :
           PureCall("parse_shorthand", [shorthand |-> shorthand], parse_shorthand(shorthand))

from_shorthand_call ==
    /\ pc = "idle"
    /\ \E note \in PairInputs, interval_ \in ShorthandInputs, up \in BOOLEAN :
           CacheCall("from_shorthand", [note |-> note, interval |-> interval_, up |-> up],
                     from_shorthand(key_cache, note, interval_, up))

NextShorthand == parse_shorthand_call \/ from_shorthand_call \/ finish

SpecShorthand == Init /\ [][NextShorthand]_vars

(***************************************************************************)
(* Calls on a Note object: set_note, then transpositions                   *)
(***************************************************************************)
set_note_call ==
    /\ pc = "idle"
    /\ \E name \in NameInputs, octave \in OctaveInputs, dynamics \in DynamicsInputs :
           \E v \in {set_note(self, name, octave, dynamics)} :
               /\ pc' = "done"
               /\ op' = "set_note"
               /\ args' = [name |-> name, octave |-> octave, dynamics |-> dynamics,
                           old |-> self]
               /\ ret' = v.r
               /\ self' = v.self
               /\ UNCHANGED <<key_cache, requested, callers>>

NextNote == set_note_call \/ finish

SpecNote == Init /\ [][NextNote]_vars

(***************************************************************************)
(* Transpositions of a Note: Note(name), transposed, then transposed back  *)
(***************************************************************************)
\* Note(name): the constructor hands the name to set_note with the defaults
InitTranspose ==
    /\ pc = "idle"
    /\ op = "none"
    /\ args = <<>>
    /\ ret = Return(None)
    /\ key_cache = <<>>
    /\ requested = {}
    /\ \E name \in NoteNames(MaxAccPair) :
           self = set_note(Note_defaults, name, Note_defaults.octave, Note_defaults.dynamics).self
    /\ callers = [p \in Procs |-> CallerIdle]

transpose_call ==
    /\ pc = "idle"
    /\ \E interval_ \in ShorthandInputs, up \in BOOLEAN :
           \E v \in {transpose(key_cache, self, interval_, up)} :
               /\ pc' = "done"
               /\ op' = "transpose"
               /\ args' = [interval |-> interval_, up |-> up,
                           old_name |-> self.name, old_octave |-> self.octave]
               /\ ret' = v.r
               /\ self' = v.self
               /\ key_cache' = v.c
               /\ UNCHANGED <<requested, callers>>

\* the second call of the docstring: the same interval, downwards
transpose_back_call ==
    /\ pc = "done"
    /\ op = "transpose"
    /\ args.up
    /\ ret.exc = "none"
    /\ \E v \in {transpose(key_cache, self, args.interval, FALSE)} :
           /\ pc' = "done"
           /\ op' = "transpose_back"
           /\ ret' = v.r
           /\ self' = v.self
           /\ key_cache' = v.c
           /\ UNCHANGED <<args, requested, callers>>

NextTranspose == transpose_call \/ transpose_back_call

SpecTranspose == InitTranspose /\ [][NextTranspose]_vars

(***************************************************************************)
(* Calls of get_interval                                                   *)
(***************************************************************************)
get_interval_call ==
    /\ pc = "idle"
    /\ \E note \in PairInputs, half_steps \in (-MaxHalfSteps)..MaxHalfSteps,
          key \in KeyInputs, up \in BOOLEAN :
           CacheCall("get_interval",
                     [note |-> note, half_steps |-> half_steps, key |-> key, up |-> up],
                     get_interval(key_cache, note, half_steps, key, up))

NextGetInterval == get_interval_call

SpecGetInterval == Init /\ [][NextGetInterval]_vars

(***************************************************************************)
(* The correction loop of augment_or_diminish_until_the_interval_is_right, *)
(* one iteration at a time                                                 *)
(***************************************************************************)
\* cur = measure(note1, note2) before the loop
loop_enter ==
    /\ pc = "idle"
    /\ \E note1 \in BaseNoteInputs, note2 \in PairInputs, half_step_interval \in 0..11 :
           \E cur \in {measure(note1, note2)} :
               /\ op' = "augment_or_diminish_until_the_interval_is_right"
               /\ IF cur.exc # "none"
                  THEN /\ pc' = "done"
                       /\ args' = [note1 |-> note1, note2 |-> note2,
                                   half_step_interval |-> half_step_interval,
                                   cur |-> 0, steps |-> 0]
                       /\ ret' = cur
                  ELSE /\ pc' = "loop"
                       /\ args' = [note1 |-> note1, note2 |-> note2,
                                   half_step_interval |-> half_step_interval,
                                   cur |-> cur.val, steps |-> 0]
                       /\ ret' = Return(None)
    /\ UNCHANGED <<key_cache, requested, self, callers>>

\* one pass through the body: note2 is diminished or augmented, cur measured again
loop_step ==
    /\ pc = "loop"
    /\ args.cur # args.half_step_interval
    /\ args.steps < MaxLoopSteps
    /\ \E note2 \in {loop_body(args.note2, args.cur, args.half_step_interval).val} :
           /\ args' = [args EXCEPT !.note2 = note2,
                                   !.cur = measure(args.note1, note2).val,
                                   !.steps = args.steps + 1]
    /\ UNCHANGED <<pc, op, ret, key_cache, requested, self, callers>>

\* the loop condition fails: the accidentals are flipped if need be, note2 returned
loop_exit ==
    /\ pc = "loop"
    /\ args.cur = args.half_step_interval
    /\ pc' = "done"
    /\ ret' = Return(FlipAccidentals(args.note2))
    /\ UNCHANGED <<op, args, key_cache, requested, self, callers>>

NextLoop == loop_enter \/ loop_step \/ loop_exit

\* a thread inside the loop keeps running
SpecLoop == Init /\ [][NextLoop]_vars /\ WF_vars(loop_step) /\ WF_vars(loop_exit)

(***************************************************************************)
(* A Note on a natural letter, augmented and diminished in any order       *)
(***************************************************************************)
\* Note(X) for a natural letter X; the caller counts its calls
InitChain ==
    /\ pc = "done"
    /\ op = "Note"
    /\ \E letter \in Letters :
           /\ args = [start |-> <<letter>>, augments |-> 0, diminishes |-> 0]
           /\ self = set_note(Note_defaults, <<letter>>, Note_defaults.octave,
                              Note_defaults.dynamics).self
    /\ ret = Return(None)
    /\ key_cache = <<>>
    /\ requested = {}
    /\ callers = [p \in Procs |-> CallerIdle]

ChainGoesOn ==
    /\ pc = "done"
    /\ op \in {"Note", "Note.augment", "Note.diminish"}
    /\ args.augments + args.diminishes < MaxChain

Note_augment_call ==
    /\ ChainGoesOn
    /\ \E v \in {Note_augment(self)} :
           /\ op' = "Note.augment"
           /\ args' = [args EXCEPT !.augments = args.augments + 1]
           /\ ret' = v.r
           /\ self' = v.self
    /\ UNCHANGED <<pc, key_cache, requested, callers>>

Note_diminish_call ==
    /\ ChainGoesOn
    /\ \E v \in {Note_diminish(self)} :
           /\ op' = "Note.diminish"
           /\ args' = [args EXCEPT !.diminishes = args.diminishes + 1]
           /\ ret' = v.r
           /\ self' = v.self
    /\ UNCHANGED <<pc, key_cache, requested, callers>>

NextChain == Note_augment_call \/ Note_diminish_call

SpecChain == InitChain /\ [][NextChain]_vars

(***************************************************************************)
(* Threads inside get_notes at the same time, sharing _key_cache           *)
(***************************************************************************)
\* thread p calls get_notes(key)
caller_call(p) ==
    /\ callers[p].pc = "idle"
    /\ \E key \in CallerKeys :
           /\ callers' = [callers EXCEPT ![p].pc = "check", ![p].key = key]
           /\ requested' = requested \cup ({key} \cap ValidKeys)
    /\ UNCHANGED <<pc, op, args, ret, key_cache, self>>

\* if key in _key_cache
caller_check(p) ==
    /\ callers[p].pc = "check"
    /\ callers' = [callers EXCEPT ![p].pc = IF callers[p].key \in DOMAIN key_cache
                                          THEN "read" ELSE "compute"]
    /\ UNCHANGED <<pc, op, args, ret, key_cache, requested, self>>

\* return _key_cache[key]
caller_read(p) ==
    /\ callers[p].pc = "read"
    /\ callers' = [callers EXCEPT ![p].pc = "done",
                                  ![p].ret = Return(key_cache[callers[p].key])]
    /\ UNCHANGED <<pc, op, args, ret, key_cache, requested, self>>

\* assert_valid_key(key) and the building of result
caller_compute(p) ==
    /\ callers[p].pc = "compute"
    /\ \E a \in {assert_valid_key(callers[p].key)} :
           callers' = IF a.exc # "none"
                      THEN [callers EXCEPT ![p].pc = "done", ![p].ret = a]
                      ELSE [callers EXCEPT ![p].pc = "write",
                                           ![p].result = scale_of_key(callers[p].key)]
    /\ UNCHANGED <<pc, op, args, ret, key_cache, requested, self>>

\* _key_cache[key] = result
caller_write(p) ==
    /\ callers[p].pc = "write"
    /\ key_cache' = cache_store(key_cache, callers[p].key, callers[p].result)
    /\ callers' = [callers EXCEPT ![p].pc = "return"]
    /\ UNCHANGED <<pc, op, args, ret, requested, self>>

\* return result
caller_return(p) ==
    /\ callers[p].pc = "return"
    /\ callers' = [callers EXCEPT ![p].pc = "done", ![p].ret = Return(callers[p].result)]
    /\ UNCHANGED <<pc, op, args, ret, key_cache, requested, self>>

NextRace ==
    \E p \in Procs :
        \/ caller_call(p)
        \/ caller_check(p)
        \/ caller_read(p)
        \/ caller_compute(p)
        \/ caller_write(p)
        \/ caller_return(p)

SpecRace == Init /\ [][NextRace]_vars

(***************************************************************************)
(* Calls of the consonance tests                                           *)
(***************************************************************************)
is_perfect_consonant_call ==
    /\ pc = "idle"
    /\ \E note1 \in BaseNoteInputs, note2 \in PairInputs, given \in FlagInputs :
           PureCall("is_perfect_consonant",
                    [note1 |-> note1, note2 |-> note2, include_fourths |-> given],
                    is_perfect_consonant(note1, note2,
                                         include_fourths_of("is_perfect_consonant", given)))

is_imperfect_consonant_call ==
    /\ pc = "idle"
    /\ \E note1 \in BaseNoteInputs, note2 \in PairInputs :
           PureCall("is_imperfect_consonant",
                    [note1 |-> note1, note2 |-> note2, include_fourths |-> "default"],
                    is_imperfect_consonant(note1, note2))

is_consonant_call ==
    /\ pc = "idle"
    /\ \E note1 \in BaseNoteInputs, note2 \in PairInputs, given \in FlagInputs :
           PureCall("is_consonant",
                    [note1 |-> note1, note2 |-> note2, include_fourths |-> given],
                    is_consonant(note1, note2, include_fourths_of("is_consonant", given)))

is_dissonant_call ==
    /\ pc = "idle"
    /\ \E note1 \in BaseNoteInputs, note2 \in PairInputs, given \in FlagInputs :
           PureCall("is_dissonant",
                    [note1 |-> note1, note2 |-> note2, include_fourths |-> given],
                    is_dissonant(note1, note2, include_fourths_of("is_dissonant", given)))

NextConsonance ==
    \/ is_perfect_consonant_call
    \/ is_imperfect_consonant_call
    \/ is_consonant_call
    \/ is_dissonant_call
    \/ finish

SpecConsonance == Init /\ [][NextConsonance]_vars

(***************************************************************************)
(* Naming an interval, then building it: determine(note1, note2,            *)
(* shorthand=True, up) followed by from_shorthand(note1, s, up) on the      *)
(* shorthand s it returned                                                  *)
(***************************************************************************)
determine_shorthand_call ==
    /\ pc = "idle"
    /\ \E note1 \in PairInputs, note2 \in PairInputs, up \in BOOLEAN :
           PureCall("determine",
                    [note1 |-> note1, note2 |-> note2, shorthand |-> TRUE, up |-> up],
                    determine(note1, note2, TRUE, up))

from_shorthand_of_name_call ==
    /\ pc = "done"
    /\ op = "determine"
    /\ Returned(ret)
    /\ CacheCall("from_shorthand",
                 [note |-> args.note1, interval |-> ret.val, up |-> args.up, note2 |-> args.note2],
                 from_shorthand(key_cache, args.note1, ret.val, args.up))

NextNaming == determine_shorthand_call \/ from_shorthand_of_name_call \/ finish

SpecNaming == Init /\ [][NextNaming]_vars

(***************************************************************************)
(* Vocabulary of the properties                                            *)
(***************************************************************************)
\* a letter followed by accidentals only
IsNoteName(n) ==
    /\ n # <<>>
    /\ n[1] \in Letters
    /\ \A i \in 2..Len(n) : n[i] \in {"#", "b"}

\* how many letters r's letter lies above n's, cyclically
LettersAbove(n, r) == (Index(base_scale, r[1]) - Index(base_scale, n[1])) % 7

\* the major-scale baseline B(d) of a degree d in 1..7
Baseline == <<0, 2, 4, 5, 7, 9, 11>>

Called(name) == pc = "done" /\ op = name

(***************************************************************************)
(* C1: for every valid note n each absolute interval function returns a    *)
(* note whose letter lies the nominal number of letters above n's and      *)
(* whose distance measure(n, r) is the nominal number of half steps; for   *)
(* the major and perfect functions the result carries accidentals of one   *)
(* kind only and at most 6 of them.                                        *)
(***************************************************************************)
NominalInterval(name) ==
    CASE name = "major_second" -> <<1, 2>>
      [] name = "major_third" -> <<2, 4>>
      [] name = "perfect_fourth" -> <<3, 5>>
      [] name = "perfect_fifth" -> <<4, 7>>
      [] name = "major_sixth" -> <<5, 9>>
      [] name = "major_seventh" -> <<6, 11>>
      [] name = "minor_second" -> <<1, 1>>
      [] name = "minor_third" -> <<2, 3>>
      [] name = "minor_sixth" -> <<5, 8>>
      [] name = "minor_seventh" -> <<6, 10>>
      [] name = "diminished_fourth" -> <<3, 4>>
      [] name = "augmented_fourth" -> <<3, 6>>
      [] name = "diminished_fifth" -> <<4, 6>>
      [] name = "diminished_seventh" -> <<6, 9>>

MajorOrPerfect ==
    {"major_second", "major_third", "perfect_fourth", "perfect_fifth", "major_sixth",
     "major_seventh"}

AbsoluteIntervals ==
    MajorOrPerfect \cup {"minor_second", "minor_third", "minor_sixth", "minor_seventh",
                         "diminished_fourth", "augmented_fourth", "diminished_fifth",
                         "diminished_seventh"}

C1_AbsoluteIntervals ==
    (pc = "done" /\ op \in AbsoluteIntervals /\ IsNoteName(args.note)) =>
        /\ Returned(ret)
        /\ IsNoteName(ret.val)
        /\ LettersAbove(args.note, ret.val) = NominalInterval(op)[1]
        /\ measure(args.note, ret.val) = Return(NominalInterval(op)[2])
        /\ op \in MajorOrPerfect =>
            /\ Count(Tail(ret.val), "#") = 0 \/ Count(Tail(ret.val), "b") = 0
            /\ Len(ret.val) - 1 <= 6

\* the major seventh of C####### needs seven sharps on B and is flipped to five flats
C1_Witness ==
    /\ Called("major_seventh")
    /\ args.note = <<"C", "#", "#", "#", "#", "#", "#", "#">>
    /\ ret = Return(<<"B", "b", "b", "b", "b", "b">>)

(***************************************************************************)
(* C8: for every valid note n, mixed sharps and flats included,            *)
(* note_to_int(augment(n)) = (note_to_int(n) + 1) mod 12 and               *)
(* note_to_int(diminish(n)) = (note_to_int(n) - 1) mod 12, and both        *)
(* results are valid notes again.                                          *)
(***************************************************************************)
C8_AugmentDiminishPitch ==
    /\ (Called("augment") /\ IsNoteName(args.note)) =>
        /\ Returned(ret)
        /\ is_valid_note(ret.val) = Return(TRUE)
        /\ note_to_int(ret.val) = Return((note_to_int(args.note).val + 1) % 12)
    /\ (Called("diminish") /\ IsNoteName(args.note)) =>
        /\ Returned(ret)
        /\ is_valid_note(ret.val) = Return(TRUE)
        /\ note_to_int(ret.val) = Return((note_to_int(args.note).val - 1) % 12)

\* augmenting a note that ends in a flat after a sharp strips the flat
C8_Witness ==
    /\ Called("augment")
    /\ args.note = <<"C", "#", "b">>
    /\ ret = Return(<<"C", "#">>)

(***************************************************************************)
(* C6: for every one of the 30 valid keys k, get_notes(k) has exactly 7    *)
(* entries, each a natural letter followed by at most one accidental,      *)
(* whose letters are the 7 natural letters in cyclic order starting at     *)
(* the tonic's letter; get_notes('F') and get_notes('c') are as documented.*)
(***************************************************************************)
C6_ScaleShape ==
    /\ Cardinality(ValidKeys) = 30
    /\ (Called("get_notes") /\ args.key \in ValidKeys) =>
        /\ Returned(ret)
        /\ Len(ret.val) = 7
        /\ \A i \in 1..7 :
            /\ IsNoteName(ret.val[i])
            /\ Len(ret.val[i]) <= 2
            /\ ret.val[i][1] = base_scale[((Index(base_scale, Upper(args.key[1])) + i - 1) % 7) + 1]
        /\ args.key = <<"F">> =>
            ret.val = << <<"F">>, <<"G">>, <<"A">>, <<"B", "b">>, <<"C">>, <<"D">>, <<"E">> >>
        /\ args.key = <<"c">> =>
            ret.val = << <<"C">>, <<"D">>, <<"E", "b">>, <<"F">>, <<"G">>, <<"A", "b">>,
                         <<"B", "b">> >>

\* a scale that wraps around B and carries sharps: B major
C6_Witness ==
    /\ Called("get_notes")
    /\ args.key = <<"B">>
    /\ ret = Return(<< <<"B">>, <<"C", "#">>, <<"D", "#">>, <<"E">>, <<"F", "#">>, <<"G", "#">>,
                       <<"A", "#">> >>)

(***************************************************************************)
(* C7: after any sequence of get_notes calls with valid and invalid keys    *)
(* the cache holds exactly the valid keys requested so far, each mapped to *)
(* the scale a fresh computation gives; a call returns that scale, a       *)
(* repeated call leaves the cache unchanged; an invalid key raises         *)
(* NoteFormatError and leaves the cache unchanged; no entry is ever        *)
(* removed or overwritten.                                                 *)
(***************************************************************************)
FreshScale(key) == get_notes(<<>>, key).r

C7_CacheState ==
    /\ DOMAIN key_cache = requested
    /\ \A k \in DOMAIN key_cache : Return(key_cache[k]) = FreshScale(k)
    /\ (Called("get_notes") /\ args.key \in ValidKeys) => ret = FreshScale(args.key)
    /\ (Called("get_notes") /\ args.key \notin ValidKeys) => ret = Raise("NoteFormatError")

C7_CacheStep ==
    /\ \A k \in DOMAIN key_cache : k \in DOMAIN key_cache' /\ key_cache'[k] = key_cache[k]
    /\ (op' = "get_notes" /\ pc' = "done"
            /\ (args'.key \in DOMAIN key_cache \/ args'.key \notin ValidKeys)) =>
        key_cache' = key_cache

C7_CacheExactAndStable == [](C7_CacheState) /\ [][C7_CacheStep]_vars

\* an invalid key is refused while the cache already holds a major and a minor key
C7_Witness ==
    /\ Called("get_notes")
    /\ args.key = <<"H">>
    /\ ret = Raise("NoteFormatError")
    /\ DOMAIN key_cache = {<<"C">>, <<"c">>}

(***************************************************************************)
(* C10 as stated: for a key with signature -n, get_key_signature_          *)
(* accidentals returns the first n letters of F,C,G,D,A,E,B each suffixed  *)
(* 'b'; for +n the first n letters of that table each suffixed '#'; for 0  *)
(* the empty list.                                                         *)
(***************************************************************************)
FlatsOrderTable == <<"F", "C", "G", "D", "A", "E", "B">>

C10_Stated_FirstLettersBothWays ==
    (Called("get_key_signature_accidentals") /\ args.key \in ValidKeys) =>
        LET n == get_key_signature(args.key).val IN
        /\ Returned(ret)
        /\ n < 0 => ret.val = [j \in 1..(-n) |-> <<FlatsOrderTable[j], "b">>]
        /\ n > 0 => ret.val = [j \in 1..n |-> <<FlatsOrderTable[j], "#">>]
        /\ n = 0 => ret.val = <<>>

(***************************************************************************)
(* C10 amended: for signature -n the result is the LAST n letters of       *)
(* F,C,G,D,A,E,B taken backwards (B,E,A,D,G,C,F), each suffixed 'b'; for   *)
(* +n the first n letters of the table each suffixed '#'; for 0 the empty  *)
(* list.                                                                   *)
(***************************************************************************)
C10_FlatsFromTheEnd ==
    (Called("get_key_signature_accidentals") /\ args.key \in ValidKeys) =>
        LET n == get_key_signature(args.key).val IN
        /\ Returned(ret)
        /\ n < 0 => ret.val = [j \in 1..(-n) |-> <<FlatsOrderTable[8 - j], "b">>]
        /\ n > 0 => ret.val = [j \in 1..n |-> <<FlatsOrderTable[j], "#">>]
        /\ n = 0 => ret.val = <<>>

\* E flat major has three flats: Bb, Eb, Ab
C10_Witness ==
    /\ Called("get_key_signature_accidentals")
    /\ args.key = <<"E", "b">>
    /\ ret = Return(<< <<"B", "b">>, <<"E", "b">>, <<"A", "b">> >>)

(***************************************************************************)
(* C2: determine classifies unisons, fourths and fifths with the perfect   *)
(* family: for every valid note n, determine(n, perfect_fifth(n)) is       *)
(* 'perfect fifth', determine(n, perfect_fourth(n)) is 'perfect fourth'    *)
(* and determine(n, n) is 'perfect unison'; determine('C', 'G') is         *)
(* 'perfect fifth'.                                                        *)
(***************************************************************************)
C2_PerfectFamilyNames ==
    (Called("determine") /\ IsNoteName(args.note1) /\ ~args.shorthand /\ args.up) =>
        /\ args.note2 = perfect_fifth(<<>>, args.note1).r.val => ret = Return(<<"perfect", " ", "fifth">>)
        /\ args.note2 = perfect_fourth(<<>>, args.note1).r.val => ret = Return(<<"perfect", " ", "fourth">>)
        /\ args.note2 = args.note1 => ret = Return(<<"perfect", " ", "unison">>)

(***************************************************************************)
(* C3: for every valid note n and valid shorthand with s sharps, f flats   *)
(* and degree residue d, from_shorthand(n, shorthand, up=True) returns r   *)
(* with measure(n, r) = (B(d) + s - f) mod 12, d-1 letters above n, and    *)
(* from_shorthand(n, shorthand, up=False) returns r with                   *)
(* measure(r, n) = (B(d) + s - f) mod 12, d-1 letters below n; the three   *)
(* documented examples hold.                                               *)
(***************************************************************************)
ValidShorthands == {a \o Str(d) : a \in AccStrings(MaxShAcc), d \in 1..15}

\* the degree number written at the end of a shorthand
DegreeOf(shorthand) ==
    Int_(SelectSeq(shorthand, LAMBDA ch : ch \notin {"#", "b"}))

C3_ShorthandDistance ==
    (Called("from_shorthand") /\ IsNoteName(args.note) /\ args.interval \in ValidShorthands) =>
        LET d == ((DegreeOf(args.interval) - 1) % 7) + 1
            s == Count(args.interval, "#")
            f == Count(args.interval, "b")
            want == (Baseline[d] + s - f) % 12
        IN /\ Returned(ret)
           /\ IsNoteName(ret.val)
           /\ args.up =>
               /\ measure(args.note, ret.val) = Return(want)
               /\ LettersAbove(args.note, ret.val) = d - 1
           /\ ~args.up =>
               /\ measure(ret.val, args.note) = Return(want)
               /\ LettersAbove(ret.val, args.note) = d - 1
           /\ (args.note = <<"A">> /\ args.interval = <<"b", "3">> /\ args.up) =>
               ret.val = <<"C">>
           /\ (args.note = <<"D">> /\ args.interval = <<"2">> /\ args.up) =>
               ret.val = <<"E">>
           /\ (args.note = <<"E">> /\ args.interval = <<"2">> /\ ~args.up) =>
               ret.val = <<"D">>

\* a sharpened second downwards from E: the minor seventh D, lowered to Db
C3_Witness ==
    /\ Called("from_shorthand")
    /\ args = [note |-> <<"E">>, interval |-> <<"#", "2">>, up |-> FALSE]
    /\ ret = Return(<<"D", "b">>)

(***************************************************************************)
(* C4: from_shorthand signals failure by returning False instead of        *)
(* raising: it returns False when the note is not a valid note name, and   *)
(* it returns False (does not raise) when the shorthand's degree is        *)
(* unsupported, e.g. '0' or '16'.                                          *)
(***************************************************************************)
\* accidentals followed by a degree number outside 1..15
UnsupportedDegrees ==
    {a \o Str(d) : a \in AccStrings(MaxShAcc), d \in (0..MaxDegree) \ (1..15)}

C4_FalseNotRaise ==
    /\ (Called("from_shorthand") /\ args.note # <<>> /\ ~IsNoteName(args.note)) =>
        ret = ReturnFalse
    /\ (Called("from_shorthand") /\ IsNoteName(args.note)
            /\ args.interval \in UnsupportedDegrees) =>
        ret = ReturnFalse

(***************************************************************************)
(* C5 as stated: interval(key, start, offset) matches the start note to    *)
(* the key's scale by its first letter only: for every valid key and every *)
(* valid start note, an altered one that is not in the scale included, it  *)
(* does not fail and returns the scale entry at (index of the scale note   *)
(* with start's letter + offset) mod 7.                                    *)
(***************************************************************************)
\* the entry of key's scale offset places after the one with start's letter
EntryByLetter(key, start, offset) ==
    LET scale == FreshScale(key).val
        i == CHOOSE i \in 1..7 : scale[i][1] = start[1]
    IN scale[((i - 1 + offset) % 7) + 1]

C5_Stated_LetterOnlyMatch ==
    (Called("interval") /\ args.key \in ValidKeys /\ IsNoteName(args.start_note)) =>
        ret = Return(EntryByLetter(args.key, args.start_note, args.offset))

(***************************************************************************)
(* C5 amended: for every valid key and valid start note, interval returns  *)
(* the scale entry at (index of the scale note with start's letter +       *)
(* offset) mod 7 when the start note, as spelled, is a note of the key's   *)
(* scale, and raises KeyError when it is not (e.g. 'C#' in key 'C').       *)
(***************************************************************************)
C5_StartMustBeInScale ==
    (Called("interval") /\ args.key \in ValidKeys /\ IsNoteName(args.start_note)) =>
        IF Contains(FreshScale(args.key).val, args.start_note)
        THEN ret = Return(EntryByLetter(args.key, args.start_note, args.offset))
        ELSE ret = Raise("KeyError")

\* C sharp is not a note of C major: the call is refused
C5_Witness ==
    /\ Called("interval")
    /\ args.key = <<"C">>
    /\ args.start_note = <<"C", "#">>
    /\ ret = Raise("KeyError")

(***************************************************************************)
(* C9 as stated: determine returns a name whenever the chromatic           *)
(* difference from the interval size's baseline, normalized into [-6,6],   *)
(* is within 2 semitones, and raises KeyError exactly when it is more than *)
(* 2 semitones off.                                                        *)
(***************************************************************************)
\* the size of the interval, 1..7, by letters
SizeOf(note1, note2, up) ==
    IF up THEN LettersAbove(note1, note2) + 1 ELSE LettersAbove(note2, note1) + 1

\* the chromatic distance minus the size's baseline, normalized into -6..6
OffBaseline(note1, note2, up) ==
    LET dist == IF up THEN measure(note1, note2).val ELSE measure(note2, note1).val
        raw == dist - Baseline[SizeOf(note1, note2, up)]
    IN IF raw < -6 THEN raw + 12 ELSE IF raw > 6 THEN raw - 12 ELSE raw

C9_Stated_WithinTwo ==
    (Called("determine") /\ IsNoteName(args.note1) /\ IsNoteName(args.note2)) =>
        IF OffBaseline(args.note1, args.note2, args.up) \in -2..2
        THEN Returned(ret)
        ELSE ret = Raise("KeyError")

(***************************************************************************)
(* C9 amended: determine returns a name exactly when the normalized        *)
(* difference is an entry of the modifier table the code uses for the      *)
(* interval's size: -2..2 for unisons and fourths (the perfect-family      *)
(* table), -2..1 for seconds, thirds, fifths, sixths and sevenths (the     *)
(* imperfect-family table, which has no +2 entry and which the code also   *)
(* uses for fifths); otherwise it raises KeyError.                         *)
(***************************************************************************)
C9_WithinTheTable ==
    (Called("determine") /\ IsNoteName(args.note1) /\ IsNoteName(args.note2)) =>
        LET off == OffBaseline(args.note1, args.note2, args.up)
            supported == IF SizeOf(args.note1, args.note2, args.up) \in {1, 4}
                         THEN -2..2 ELSE -2..1
        IN IF off \in supported THEN Returned(ret) ELSE ret = Raise("KeyError")

\* C to E## is a third two semitones above major: no such entry, KeyError
C9_Witness ==
    /\ Called("determine")
    /\ args.note1 = <<"C">>
    /\ args.note2 = <<"E", "#", "#">>
    /\ args.up
    /\ ret = Raise("KeyError")

(***************************************************************************)
(* C11: for every Note with a valid name and every valid shorthand,        *)
(* transpose(shorthand) followed by transpose(shorthand, False) restores   *)
(* the pitch value int(note), and for a plainly spelled note also its name *)
(* and octave.  The code adds the octaves of a compound interval in both   *)
(* directions, so a ninth up and a ninth down ends two octaves higher.     *)
(***************************************************************************)
\* the Note as it was before the first transposition
Original == [name |-> args.old_name, octave |-> args.old_octave, dynamics |-> self.dynamics]

C11_TransposeRoundTrip ==
    (Called("transpose_back") /\ args.interval \in ValidShorthands) =>
        /\ ret = Return(None)
        /\ Note_int(self) = Note_int(Original)
        /\ Len(args.old_name) = 1 => self = Original

(***************************************************************************)
(* C12: for every Note whose name has at most two accidentals and every    *)
(* valid shorthand of degree D with s sharps and f flats, transposing      *)
(* upwards raises int(note) by exactly                                     *)
(* Baseline[((D-1) mod 7)+1] + 12*((D-1) div 7) + s - f; C-4 by '3' is     *)
(* E-4, E-4 by 'b2' is F-4 and F-4 by '5' is C-5.                          *)
(***************************************************************************)
C12_TransposeDistance ==
    (Called("transpose") /\ args.up /\ args.interval \in ValidShorthands
        /\ Len(args.old_name) - 1 <= 2) =>
        LET D == DegreeOf(args.interval)
            s == Count(args.interval, "#")
            f == Count(args.interval, "b")
        IN /\ ret = Return(None)
           /\ Note_int(self).val - Note_int(Original).val
                  = Baseline[((D - 1) % 7) + 1] + 12 * ((D - 1) \div 7) + s - f
           /\ (Original.name = <<"C">> /\ Original.octave = 4 /\ args.interval = <<"3">>) =>
                  (self.name = <<"E">> /\ self.octave = 4)
           /\ (Original.name = <<"E">> /\ Original.octave = 4 /\ args.interval = <<"b", "2">>) =>
                  (self.name = <<"F">> /\ self.octave = 4)
           /\ (Original.name = <<"F">> /\ Original.octave = 4 /\ args.interval = <<"5">>) =>
                  (self.name = <<"C">> /\ self.octave = 5)

\* B double flat a sharpened ninth up: the letter wraps and an octave is added
C12_Witness ==
    /\ Called("transpose")
    /\ args.up
    /\ args.old_name = <<"B", "b", "b">>
    /\ args.interval = <<"#", "9">>
    /\ self.name = <<"C">>
    /\ self.octave = args.old_octave + 2

(***************************************************************************)
(* C13: set_note(name, octave, dynamics) has only two outcomes for any     *)
(* string: it sets name, octave (from the 'NAME-OCTAVE' form when there is *)
(* a dash) and dynamics and returns the note itself, or it raises          *)
(* NoteFormatError and leaves the note as it was.  It never returns a      *)
(* falsy value, never raises another error and never changes the name      *)
(* before failing.  The code returns False for a name with two dashes,     *)
(* raises IndexError for an empty name or an empty part before the dash,   *)
(* and raises ValueError after it has set the name when the part after     *)
(* the dash is not a number.                                               *)
(***************************************************************************)
C13_SetNoteTwoOutcomes ==
    Called("set_note") =>
        \/ /\ Returned(ret)
           /\ ret.val = self
           /\ self.dynamics = args.dynamics
           /\ IF Contains(args.name, "-")
              THEN /\ self.name = split(args.name)[1]
                   /\ int(split(args.name)[2]) = Return(self.octave)
              ELSE /\ self.name = args.name
                   /\ self.octave = args.octave
        \/ /\ ret = Raise("NoteFormatError")
           /\ self = args.old

(***************************************************************************)
(* C14: is_valid_note is a total predicate: for every string, the empty    *)
(* one included, it returns True if the first character is one of          *)
(* C,D,E,F,G,A,B and every other character is '#' or 'b', returns False    *)
(* otherwise, and never raises.  The code reads note[0] before any test,   *)
(* so the empty string raises IndexError.                                  *)
(***************************************************************************)
C14_ValidNoteIsTotal ==
    Called("is_valid_note") => ret = Return(IsNoteName(args.note))

(***************************************************************************)
(* C15 as stated: parse_shorthand succeeds exactly on zero or more         *)
(* accidentals that are all of the same kind followed by a decimal degree  *)
(* between 1 and 15, and raises ValueError on every other string (mixed    *)
(* accidentals such as 'b#3', degree 0 or 16, the empty string); on        *)
(* success it returns the accidentals, the residue ((D-1) mod 7)+1 and the *)
(* octave count (D-1) div 7.                                               *)
(***************************************************************************)
\* accidental strings of one kind, up to the length of s
UniformAccidentals(s) == {Repeat(ch, k) : ch \in {"#", "b"}, k \in 0..Len(s)}

\* accidental strings of any mix, up to the length of s
MixedAccidentals(s) == AccStrings(Len(s))

\* what the parse of accidentals a and degree d is said to return
ParsedAs(a, d) == Return(<<a, ((d - 1) % 7) + 1, (d - 1) \div 7>>)

\* s parses as some a of accs followed by the degree 1..15, and not otherwise
ParsesExactly(s, text, accs) ==
    IF \E a \in accs, d \in 1..15 : text = a \o Str(d)
    THEN \E a \in accs, d \in 1..15 : text = a \o Str(d) /\ ret = ParsedAs(a, d)
    ELSE ret = Raise("ValueError")

C15_Stated_UniformAccidentals ==
    Called("parse_shorthand") =>
        ParsesExactly(args.shorthand, args.shorthand, UniformAccidentals(args.shorthand))

(***************************************************************************)
(* C15 amended: parse_shorthand succeeds exactly on zero or more           *)
(* accidentals in any mix of '#' and 'b' followed by a decimal degree      *)
(* between 1 and 15, optionally followed by one line end, and raises       *)
(* ValueError on every other string; on success it returns the accidentals *)
(* as written, the residue ((D-1) mod 7)+1 and the octave count            *)
(* (D-1) div 7.                                                            *)
(***************************************************************************)
\* the string without the one line end it may finish with
WithoutLineEnd(s) == IF s # <<>> /\ Last(s) = "\n" THEN ButLast(s) ELSE s

C15_AnyMixOfAccidentals ==
    Called("parse_shorthand") =>
        ParsesExactly(args.shorthand, WithoutLineEnd(args.shorthand),
                      MixedAccidentals(args.shorthand))

\* a flat and a sharp before the degree are accepted and returned in their order
C15_Witness ==
    /\ Called("parse_shorthand")
    /\ args.shorthand = <<"b", "#", "1", "0">>
    /\ ret = Return(<<(<<"b", "#">>), 3, 1>>)

(***************************************************************************)
(* C16: for every valid note, every integer half_steps, both values of up  *)
(* and every valid key, get_interval does not raise and returns a note     *)
(* whose pitch class is (note_to_int(note) + half_steps) mod 12 (minus     *)
(* half_steps when up is False), and which is a note of the key's scale or *)
(* a scale note diminished once; the fallback lookup of (target + 1)       *)
(* mod 12 always finds a scale note.                                       *)
(***************************************************************************)
C16_GetIntervalLandsOnTarget ==
    (Called("get_interval") /\ IsNoteName(args.note) /\ args.key \in ValidKeys) =>
        LET scale == FreshScale(args.key).val
            moved == IF args.up THEN args.half_steps ELSE 0 - args.half_steps
        IN /\ Returned(ret)
           /\ note_to_int(ret.val) = Return((note_to_int(args.note).val + moved) % 12)
           /\ \/ Contains(scale, ret.val)
              \/ \E i \in 1..Len(scale) : ret.val = diminish(scale[i]).val

\* a half step above C in C major is chromatic: D is found and diminished
C16_Witness ==
    /\ Called("get_interval")
    /\ args.note = <<"C">>
    /\ args.half_steps = 1
    /\ args.key = <<"C">>
    /\ args.up
    /\ ret = Return(<<"D", "b">>)

(***************************************************************************)
(* C17: for all valid notes note1 and note2 and every target in 0..11 the  *)
(* correction loop ends after at most 11 augment/diminish steps, each step *)
(* moving measure(note1, note2) by exactly one semitone towards the target *)
(* without wrapping around, and on loop exit measure(note1, note2) is the  *)
(* target.                                                                 *)
(***************************************************************************)
InLoop == op = "augment_or_diminish_until_the_interval_is_right" /\ pc = "loop"

\* never more than 11 passes; what the loop keeps in cur is the measure
C17_LoopState ==
    /\ InLoop =>
        /\ args.steps <= 11
        /\ measure(args.note1, args.note2) = Return(args.cur)
        /\ args.cur \in 0..11
    /\ (Called("augment_or_diminish_until_the_interval_is_right") /\ Returned(ret)) =>
        /\ args.steps <= 11
        /\ measure(args.note1, args.note2) = Return(args.half_step_interval)

\* a pass moves cur one semitone towards the target, never past 0 or 11
C17_LoopStep ==
    (InLoop /\ pc' = "loop" /\ args'.steps = args.steps + 1) =>
        /\ args.cur < args.half_step_interval => args'.cur = args.cur + 1
        /\ args.cur > args.half_step_interval => args'.cur = args.cur - 1

C17_LoopConverges ==
    /\ [](C17_LoopState)
    /\ [][C17_LoopStep]_vars
    /\ (InLoop ~> Called("augment_or_diminish_until_the_interval_is_right"))

\* from B (11 above C) down to a target of 0: eleven diminishing passes
C17_Witness ==
    /\ Called("augment_or_diminish_until_the_interval_is_right")
    /\ args.note1 = <<"C">>
    /\ args.half_step_interval = 0
    /\ args.steps = 11
    /\ args.note2 = <<"B">> \o Repeat("b", 11)
    /\ ret = Return(<<"B", "#">>)

(***************************************************************************)
(* C18: starting from a natural letter X, after any sequence of a augment  *)
(* and d diminish calls the note is X followed by |a - d| copies of one    *)
(* accidental ('#' if a > d, 'b' if a < d, none if equal); sharps and      *)
(* flats never coexist, alternating calls never grow the spelling, and     *)
(* augment(diminish(n)) = diminish(augment(n)) = n for every note n with   *)
(* accidentals of at most one kind.                                        *)
(***************************************************************************)
InChain == op \in {"Note", "Note.augment", "Note.diminish"}

\* X with |a - d| sharps or flats
NetSpelling(start, a, d) ==
    start \o Repeat(IF a > d THEN "#" ELSE "b", IF a > d THEN a - d ELSE d - a)

C18_NetAccidentals ==
    InChain =>
        /\ ret = Return(None)
        /\ self.name = NetSpelling(args.start, args.augments, args.diminishes)
        /\ ~(Contains(self.name, "#") /\ Contains(self.name, "b"))
        /\ augment(diminish(self.name).val) = Return(self.name)
        /\ diminish(augment(self.name).val) = Return(self.name)

\* five augments and three diminishes in some order leave two sharps
C18_Witness ==
    /\ op = "Note.diminish"
    /\ args.start = <<"F">>
    /\ args.augments = 5
    /\ args.diminishes = 3
    /\ self.name = <<"F", "#", "#">>

(***************************************************************************)
(* C19: when two or more callers run get_notes at the same time on the     *)
(* shared cache, interleaved in any way between the cache check, the       *)
(* computation and the cache write, for the same or for different valid    *)
(* keys, every caller returns the correct scale for its key and the final  *)
(* cache maps every requested key to that scale; a race only computes a    *)
(* scale more than once.                                                   *)
(***************************************************************************)
AllReturned == \A p \in Procs : callers[p].pc = "done"

C19_RacesOnlyRecompute ==
    /\ \A p \in Procs :
           (callers[p].pc = "done" /\ callers[p].key \in ValidKeys) =>
               callers[p].ret = FreshScale(callers[p].key)
    /\ \A k \in DOMAIN key_cache :
           k \in requested /\ Return(key_cache[k]) = FreshScale(k)
    /\ AllReturned => DOMAIN key_cache = requested

\* two callers asked for the same key, both missed the cache and both built the scale
C19_Witness ==
    /\ AllReturned
    /\ \E p, q \in Procs :
           /\ p # q
           /\ callers[p].key = <<"E", "b">>
           /\ callers[q].key = <<"E", "b">>
           /\ callers[p].result # <<>>
           /\ callers[q].result # <<>>
           /\ callers[p].ret = Return(<<<<"E", "b">>, <<"F">>, <<"G">>, <<"A", "b">>,
                                        <<"B", "b">>, <<"C">>, <<"D">>>>)

(***************************************************************************)
(* C20: for all valid notes a, b: is_perfect_consonant holds iff           *)
(* measure(a,b) is 0 or 7 (or 5 when fourths are included),                *)
(* is_imperfect_consonant iff it is 3, 4, 8 or 9, is_consonant is their    *)
(* disjunction, and with default arguments is_dissonant(a,b) is            *)
(* not is_consonant(a,b): a perfect fourth (5) is consonant by default, a  *)
(* tritone (6) is always dissonant, and is_dissonant with                  *)
(* include_fourths=True also counts 5 as dissonant.                        *)
(***************************************************************************)
\* the half steps from the first argument of the call to the second
Distance == measure(args.note1, args.note2).val

\* fourths count as consonant in this call of a consonance test
FourthsIncluded == args.include_fourths \in {"default", "True"}

PerfectDistance(fourths) == Distance \in {0, 7} \/ (fourths /\ Distance = 5)

ImperfectDistance == Distance \in {3, 4, 8, 9}

C20_Consonance ==
    (pc = "done" /\ IsNoteName(args.note1) /\ IsNoteName(args.note2)) =>
        /\ op = "is_perfect_consonant" => ret = Return(PerfectDistance(FourthsIncluded))
        /\ op = "is_imperfect_consonant" => ret = Return(ImperfectDistance)
        /\ op = "is_consonant" =>
               /\ ret = Return(PerfectDistance(FourthsIncluded) \/ ImperfectDistance)
               /\ (Distance = 5 /\ args.include_fourths = "default") => ret = Return(TRUE)
               /\ Distance = 6 => ret = Return(FALSE)
        /\ op = "is_dissonant" =>
               /\ args.include_fourths = "default" =>
                      ret = Return(~is_consonant(args.note1, args.note2, TRUE).val)
               /\ ret = Return(~(ImperfectDistance \/
                                 PerfectDistance(args.include_fourths # "True")))
               /\ Distance = 6 => ret = Return(TRUE)
               /\ Distance = 5 => ret = Return(args.include_fourths = "True")

\* C to F is a fourth: dissonant once the caller asks for fourths to count
C20_Witness ==
    /\ Called("is_dissonant")
    /\ args.note1 = <<"C">>
    /\ args.note2 = <<"F">>
    /\ args.include_fourths = "True"
    /\ ret = Return(TRUE)

(***************************************************************************)
(* C21: for every valid key k, the first entry of get_notes(k) is the      *)
(* tonic itself (k with its letter upper-cased, accidental kept), the      *)
(* number of entries carrying an accidental equals |get_key_signature(k)|, *)
(* and the semitone steps between cyclically consecutive entries are       *)
(* 2,2,1,2,2,2,1 for each of the 15 major keys and 2,1,2,2,1,2,2 for each  *)
(* of the 15 minor keys.                                                   *)
(***************************************************************************)
MajorSteps == <<2, 2, 1, 2, 2, 2, 1>>

MinorSteps == <<2, 1, 2, 2, 1, 2, 2>>

Tonic(key) == <<Upper(key[1])>> \o Tail(key)

Abs(n) == IF n < 0 THEN -n ELSE n

\* the semitone steps from each entry of a scale to the next, the last one back to the first
StepsOf(scale) ==
    [i \in 1..Len(scale) |->
        (note_to_int(scale[(i % Len(scale)) + 1]).val - note_to_int(scale[i]).val) % 12]

C21_TonicSignatureSteps ==
    /\ Cardinality({major_keys[i] : i \in 1..Len(major_keys)}) = 15
    /\ Cardinality({minor_keys[i] : i \in 1..Len(minor_keys)}) = 15
    /\ (Called("get_notes") /\ args.key \in ValidKeys) =>
        /\ Returned(ret)
        /\ ret.val[1] = Tonic(args.key)
        /\ Cardinality({i \in 1..Len(ret.val) : Len(ret.val[i]) > 1})
               = Abs(get_key_signature(args.key).val)
        /\ Contains(major_keys, args.key) => StepsOf(ret.val) = MajorSteps
        /\ Contains(minor_keys, args.key) => StepsOf(ret.val) = MinorSteps

\* a minor key whose tonic carries a flat and whose seven entries are all altered: ab minor
C21_Witness ==
    /\ Called("get_notes")
    /\ args.key = <<"a", "b">>
    /\ Returned(ret)
    /\ ret.val[1] = <<"A", "b">>
    /\ \A i \in 1..7 : Len(ret.val[i]) = 2
    /\ StepsOf(ret.val) = MinorSteps

(***************************************************************************)
(* C22: naming and building are inverse: for all valid notes n1, n2 and    *)
(* both directions up, whenever determine(n1, n2, shorthand=True, up)      *)
(* returns a shorthand s without raising, from_shorthand(n1, s, up)        *)
(* returns a note with the same letter as n2 and the same pitch class as   *)
(* n2 (enharmonic to n2).                                                  *)
(***************************************************************************)
\* from_shorthand has been called on the shorthand determine gave for note and note2
BuiltFromName ==
    /\ Called("from_shorthand")
    /\ IsNoteName(args.note)
    /\ IsNoteName(args.note2)
    /\ determine(args.note, args.note2, TRUE, args.up) = Return(args.interval)

C22_NamingThenBuilding ==
    Called("from_shorthand") =>
        /\ BuiltFromName
        /\ Returned(ret)
        /\ IsNoteName(ret.val)
        /\ ret.val[1] = args.note2[1]
        /\ note_to_int(ret.val) = note_to_int(args.note2)

\* a sixth narrowed by two half steps, named downwards and built again: from E down to G##
C22_Witness ==
    /\ BuiltFromName
    /\ args.note = <<"E">>
    /\ args.note2 = <<"G", "#", "#">>
    /\ ~args.up
    /\ args.interval = <<"b", "b", "6">>
    /\ ret = Return(<<"G", "#", "#">>)

====
